---- MODULE Spec2Model ----
(***************************************************************************)
(* A model of hammer's per-package build pipeline (hammer/package.go):     *)
(* Package.Build, Package.Package, Package.fpmArgs, Package.Render and     *)
(* Package.Cleanup.                                                        *)
(*                                                                         *)
(* A Go string is modelled as a sequence of tokens.  A token is either one *)
(* piece of literal text ("f", "1", "-", ".", "rpm", ...), a glob          *)
(* metacharacter ("*"), or one template action ("{{.Name}}", "{{" ...).    *)
(* The empty string is <<>>.                                               *)
(***************************************************************************)
EXTENDS Integers, Sequences, FiniteSets, TLC

(***************************************************************************)
(* Bounds of the model.                                                    *)
(***************************************************************************)
MaxResources == 2
MaxTargets == 1

(***************************************************************************)
(* Error values.  "nil" is Go's nil error.                                 *)
(***************************************************************************)
Nil == "nil"
ErrInvalidScriptName == "invalid script name"
ErrTemplate == "template error"
ErrTempDir == "could not create temporary directory"
ErrWriteFile == "could not write file"
ErrReadDir == "could not read directory"
ErrDownload == "download failed"
ErrBuildScript == "build script failed"
ErrExit == "exit status 1"
ErrRemove == "could not remove directory"
Panic == "panic: nil pointer dereference"

(***************************************************************************)
(* The temporary directories: a function from the path of each directory   *)
(* that exists to its content.                                             *)
(***************************************************************************)
(* a directory's content is a function from file name to file content *)
EmptyDir == [n \in {} |-> <<>>]

NoDirs == [d \in {} |-> EmptyDir]

(* a removal that, like os.Remove, leaves a directory that is not empty *)
removeEmpty(dirs, dir) ==
  IF dir \in DOMAIN dirs /\ DOMAIN dirs[dir] # {}
  THEN dirs
  ELSE [d \in DOMAIN dirs \ {dir} |-> dirs[d]]

(* os.RemoveAll(dir) that succeeds *)
removeAll(dirs, dir) == [d \in DOMAIN dirs \ {dir} |-> dirs[d]]

(* a Cleanup that logs a failed removal and goes on *)
CleanupSilent(pkg, dirs, ok1, ok2) ==
  LET d1 == IF ok1 THEN removeAll(dirs, pkg.BuildRoot) ELSE dirs
      d2 == IF ok2 THEN removeAll(d1, pkg.ScriptRoot) ELSE d1
  IN  [fs |-> d2, err |-> Nil]

(* a Cleanup that goes on to the script directory after a failed removal *)
CleanupBoth(pkg, dirs, ok1, ok2) ==
  LET d1 == IF ok1 THEN removeAll(dirs, pkg.BuildRoot) ELSE dirs
      d2 == IF ok2 THEN removeAll(d1, pkg.ScriptRoot) ELSE d1
  IN  [fs |-> d2, err |-> IF ok1 /\ ok2 THEN Nil ELSE ErrRemove]

(* Package.Cleanup (lines 55-69); ok1, ok2 tell whether the first and the  *)
(* second os.RemoveAll succeed.  A failed RemoveAll leaves the directory.  *)
Cleanup(pkg, dirs, ok1, ok2) ==
  IF ~ok1 THEN [fs |-> dirs, err |-> ErrRemove]
  ELSE LET d1 == removeAll(dirs, pkg.BuildRoot)
       IN  IF ~ok2 THEN [fs |-> d1, err |-> ErrRemove]
           ELSE [fs |-> removeAll(d1, pkg.ScriptRoot), err |-> Nil]

(***************************************************************************)
(* text/template, as far as Package.Render uses it.  Execute is given the  *)
(* package itself (a *Package) as data, so an action ".X" is resolved      *)
(* against the methods of *Package as well as against its fields.          *)
(*   "{{"            an unclosed action: Parse fails                       *)
(*   "{{.Nope}}"     neither a field nor a method: Execute fails           *)
(*   "{{.Name}}" ... a field of the package: Execute writes the field's    *)
(*                   literal value (the value is not rendered again)       *)
(*   "{{.Cleanup}}"  the method Cleanup: Execute calls p.Cleanup() and     *)
(*                   writes the error it returns                           *)
(***************************************************************************)
Unclosed == "{{"
NoSuchField == "{{.Nope}}"
CleanupAction == "{{.Cleanup}}"

FieldOfAction ==
  [a \in {"{{.Name}}", "{{.Version}}", "{{.Iteration}}", "{{.License}}", "{{.BuildRoot}}"} |->
     CASE a = "{{.Name}}" -> "Name"
       [] a = "{{.Version}}" -> "Version"
       [] a = "{{.Iteration}}" -> "Iteration"
       [] a = "{{.License}}" -> "License"
       [] a = "{{.BuildRoot}}" -> "BuildRoot"]

IsFieldAction(tok) == tok \in DOMAIN FieldOfAction

(* template.Parse: fails on the first unclosed action *)
ParseFails(in) == \E i \in 1..Len(in) : in[i] = Unclosed

(* the text written for the error value a method returned *)
ErrorText(err) == IF err = Nil THEN "<nil>" ELSE err

(* template.Execute of a template that calls no method: walks the parsed   *)
(* template, writing to buf; it stops at the first action that cannot be   *)
(* evaluated and keeps what it wrote so far.  Such a run touches no        *)
(* directory.                                                              *)
RECURSIVE Execute(_, _, _)
Execute(p, in, buf) ==
  IF in = <<>> THEN [out |-> buf, err |-> Nil]
  ELSE IF Head(in) = NoSuchField THEN [out |-> buf, err |-> ErrTemplate]
  ELSE IF IsFieldAction(Head(in))
       THEN Execute(p, Tail(in), buf \o p[FieldOfAction[Head(in)]])
       ELSE Execute(p, Tail(in), Append(buf, Head(in)))

(* Package.Render of a template that calls no method: the buffer and the   *)
(* error.  The fields that fpmArgs renders in this model are such.         *)
Render(p, in) ==
  IF ParseFails(in) THEN [out |-> <<>>, err |-> ErrTemplate]
  ELSE Execute(p, in, <<>>)

(* template.Execute of any template, on the directories dirs: as Execute,  *)
(* and an action that names Cleanup calls p.Cleanup(), whose removals      *)
(* succeed as ok1 and ok2 tell, and writes the error it returns.           *)
RECURSIVE ExecuteOn(_, _, _, _, _, _)
ExecuteOn(p, in, buf, dirs, ok1, ok2) ==
  IF in = <<>> THEN [out |-> buf, err |-> Nil, fs |-> dirs]
  ELSE IF Head(in) = NoSuchField THEN [out |-> buf, err |-> ErrTemplate, fs |-> dirs]
  ELSE IF Head(in) = CleanupAction
       THEN LET c == Cleanup(p, dirs, ok1, ok2)
            IN  ExecuteOn(p, Tail(in), Append(buf, ErrorText(c.err)), c.fs, ok1, ok2)
  ELSE IF IsFieldAction(Head(in))
       THEN ExecuteOn(p, Tail(in), buf \o p[FieldOfAction[Head(in)]], dirs, ok1, ok2)
       ELSE ExecuteOn(p, Tail(in), Append(buf, Head(in)), dirs, ok1, ok2)

(* Package.Render of any template, on the directories dirs: the buffer,    *)
(* the error, and the directories it leaves                                *)
RenderOn(p, in, dirs, ok1, ok2) ==
  IF ParseFails(in) THEN [out |-> <<>>, err |-> ErrTemplate, fs |-> dirs]
  ELSE ExecuteOn(p, in, <<>>, dirs, ok1, ok2)

(***************************************************************************)
(* filepath.Match for patterns made of literal text and "*".  A file name  *)
(* holds no path separator, so "*" matches any run of tokens.              *)
(***************************************************************************)
RECURSIVE Match(_, _)
Match(pattern, name) ==
  IF pattern = <<>> THEN name = <<>>
  ELSE IF Head(pattern) = "*"
       THEN \E k \in 0..Len(name) : Match(Tail(pattern), SubSeq(name, k + 1, Len(name)))
       ELSE /\ name # <<>>
            /\ Head(name) = Head(pattern)
            /\ Match(Tail(pattern), Tail(name))

(* fmt.Sprintf("%s-%s-%s.*", p.Name, p.Version, p.Iteration) *)
nameGlob(p) == p.Name \o <<"-">> \o p.Version \o <<"-">> \o p.Iteration \o <<".", "*">>


(***************************************************************************)
(* Paths.  ioutil.TempDir returns a fresh, unique directory name; one      *)
(* Build() creates at most one build directory and one script directory.   *)
(***************************************************************************)
OutputDir == <<"/out">>
BuildDir == <<"/tmp/hammer-1">>
ScriptDir == <<"/tmp/hammer-scripts-2">>

(* path.Join(dir, name) *)
Join(dir, name) == dir \o <<"/", name>>

Flag(name) == <<"--", name>>

(***************************************************************************)
(* Package.fpmArgs.  A state st of the function is                         *)
(*   args   the argument vector built so far                               *)
(*   err    Nil while the function runs, the returned error after a return *)
(*   files  the hook files written to the script directory so far, a       *)
(*          function from file name to content                             *)
(*   calls  the calls of p.Render made so far, each with the field it      *)
(*          rendered and the error it returned                             *)
(***************************************************************************)
Returned(st) == st.err # Nil

Call(what, err) == [what |-> what, err |-> err]

(* a field whose render error is dropped *)
mandatoryFieldUnchecked(p, st, flag, value) ==
  IF Returned(st) THEN st
  ELSE LET r == Render(p, value)
       IN  [st EXCEPT !.args = st.args \o <<Flag(flag), r.out>>,
                      !.calls = Append(st.calls, Call(flag, r.err))]

(* name, version, iteration: rendered and appended *)
mandatoryField(p, st, flag, value) ==
  IF Returned(st) THEN st
  ELSE LET r == Render(p, value)
           c == Append(st.calls, Call(flag, r.err))
       IN  IF r.err # Nil THEN [st EXCEPT !.err = r.err, !.calls = c]
           ELSE [st EXCEPT !.args = st.args \o <<Flag(flag), r.out>>, !.calls = c]

(* an optional field that is sent even when it is empty *)
optionalFieldAlways(p, st, flag, value) == mandatoryField(p, st, flag, value)

(* epoch, license, vendor, description, url: only if p.<Field> != "" *)
optionalField(p, st, flag, value) ==
  IF Returned(st) THEN st
  ELSE IF value # <<>> THEN mandatoryField(p, st, flag, value)
  ELSE st

(* for _, depend := range p.Depends *)
RECURSIVE dependArgs(_)
dependArgs(depends) ==
  IF depends = <<>> THEN <<>>
  ELSE <<Flag("depend"), Head(depends)>> \o dependArgs(Tail(depends))

(* fpmArgs up to and including the depends loop (lines 186-266) *)
metadataArgs(p) ==
  LET s0 == [args |-> <<>>, err |-> Nil, files |-> EmptyDir, calls |-> <<>>]
      s1 == mandatoryField(p, s0, "name", p.Name)
      s2 == mandatoryField(p, s1, "version", p.Version)
      s3 == mandatoryField(p, s2, "iteration", p.Iteration)
      s4 == optionalField(p, s3, "epoch", p.Epoch)
      s5 == optionalField(p, s4, "license", p.License)
      s6 == optionalField(p, s5, "vendor", p.Vendor)
      s7 == optionalField(p, s6, "description", p.Description)
      s8 == optionalField(p, s7, "url", p.URL)
  IN  IF Returned(s8) THEN s8
      ELSE [s8 EXCEPT !.args = s8.args \o dependArgs(p.Depends)]

(* the validation of line 283 *)
ValidScriptName(name) ==
  name \in {"before-install", "after-install", "before-remove",
            "after-remove", "before-upgrade", "after-upgrade"}

(* a loop body without the validation of the hook name *)
scriptEntryUnvalidated(p, st, name, wfail) ==
  IF Returned(st) THEN st
  ELSE IF name = "build" THEN st
  ELSE LET content == Render(p, p.Scripts[name])
           loc == Join(p.ScriptRoot, name)
           c == Append(st.calls, Call(name, content.err))
       IN  IF content.err # Nil THEN [st EXCEPT !.err = content.err, !.calls = c]
           ELSE IF name \in wfail THEN [st EXCEPT !.err = ErrWriteFile, !.calls = c]
           ELSE [st EXCEPT !.args = st.args \o <<Flag(name), loc>>,
                           !.files = (name :> content.out) @@ st.files,
                           !.calls = c]

(* a loop body that treats the build hook like the install hooks *)
scriptEntryWithBuild(p, st, name, wfail) ==
  IF Returned(st) THEN st
  ELSE IF name # "build" /\ ~ValidScriptName(name)
       THEN [st EXCEPT !.err = ErrInvalidScriptName]
  ELSE LET content == Render(p, p.Scripts[name])
           loc == Join(p.ScriptRoot, name)
           c == Append(st.calls, Call(name, content.err))
       IN  IF content.err # Nil THEN [st EXCEPT !.err = content.err, !.calls = c]
           ELSE IF name \in wfail THEN [st EXCEPT !.err = ErrWriteFile, !.calls = c]
           ELSE [st EXCEPT !.args = st.args \o <<Flag(name), loc>>,
                           !.files = (name :> content.out) @@ st.files,
                           !.calls = c]

(* one iteration of the loop over p.Scripts (lines 276-304); wfail is the  *)
(* set of hook names whose ioutil.WriteFile fails                          *)
scriptEntry(p, st, name, wfail) ==
  IF Returned(st) THEN st
  ELSE IF name = "build" THEN st
  ELSE IF ~ValidScriptName(name) THEN [st EXCEPT !.err = ErrInvalidScriptName]
  ELSE LET content == Render(p, p.Scripts[name])
           loc == Join(p.ScriptRoot, name)
           c == Append(st.calls, Call(name, content.err))
       IN  IF content.err # Nil THEN [st EXCEPT !.err = content.err, !.calls = c]
           ELSE IF name \in wfail THEN [st EXCEPT !.err = ErrWriteFile, !.calls = c]
           ELSE [st EXCEPT !.args = st.args \o <<Flag(name), loc>>,
                           !.files = (name :> content.out) @@ st.files,
                           !.calls = c]

(* the loop over p.Scripts, visiting the keys in the given order *)
RECURSIVE scriptArgs(_, _, _, _)
scriptArgs(p, st, order, wfail) ==
  IF order = <<>> THEN st
  ELSE scriptArgs(p, scriptEntry(p, st, Head(order), wfail), Tail(order), wfail)

(* one iteration of the loop over p.Targets (lines 306-320) *)
targetEntry(p, st, target) ==
  IF Returned(st) THEN st
  ELSE LET src == Render(p, target.Src)
           dest == Render(p, target.Dest)
           c1 == Append(st.calls, Call("target src", src.err))
           c2 == Append(c1, Call("target dest", dest.err))
       IN  IF src.err # Nil THEN [st EXCEPT !.err = src.err, !.calls = c1]
           ELSE IF dest.err # Nil THEN [st EXCEPT !.err = dest.err, !.calls = c2]
           ELSE [st EXCEPT !.args = Append(st.args, src.out \o <<"=">> \o dest.out),
                           !.calls = c2]

RECURSIVE targetArgs(_, _, _)
targetArgs(p, st, targets) ==
  IF targets = <<>> THEN st
  ELSE targetArgs(p, targetEntry(p, st, Head(targets)), Tail(targets))

(* fpmArgs from the script loop on (lines 276-322); p.ScriptRoot is set *)
hookAndTargetArgs(p, st, order, wfail) ==
  targetArgs(p, scriptArgs(p, st, order, wfail), p.Targets)

(* the orders in which a range over the map p.Scripts can visit its keys *)
Orders(keys) ==
  {o \in [1..Cardinality(keys) -> keys] : \A i, j \in DOMAIN o : i # j => o[i] # o[j]}

(* prefixArgs of Package() (lines 162-166) *)
prefixArgs(p) == << <<"-s">>, <<"dir">>, <<"-t">>, <<"rpm">>, <<"-p">>, p.OutputRoot >>


(***************************************************************************)
(* The packages the model builds.                                          *)
(***************************************************************************)
BuildBody == <<"make">>
BogusBody == <<"echo", "x">>
AfterBody == <<"echo", "{{.Version}}">>

(* script sets: the build hook and any of the other hooks *)
ScriptSets(hooks, bodies) ==
  {s \in UNION {[({"build"} \cup K) -> bodies \cup {BuildBody, BogusBody}] :
                   K \in SUBSET hooks} :
     /\ s["build"] = BuildBody
     /\ \A h \in DOMAIN s \ {"build", "bogus-hook"} : s[h] \in bodies
     /\ "after-install" \in DOMAIN s => s["after-install"] = AfterBody
     /\ "bogus-hook" \in DOMAIN s => s["bogus-hook"] = BogusBody}

(* sequences over S of length at most n *)
SeqsUpTo(S, n) == UNION {[1..k -> S] : k \in 0..n}

TargetsOver(srcs, dests) == SeqsUpTo([Src : srcs, Dest : dests], MaxTargets)

ResourceLists == SeqsUpTo([name : {"r1", "r2"}], MaxResources)

(* the packages of the whole-build specification: few metadata fields vary *)
BuildPackages ==
  [Name : {<<"f">>, <<"*">>}, Version : {<<"1">>, <<Unclosed>>}, Iteration : {<<"1">>},
   Epoch : {<<"2">>}, License : {<<>>}, Vendor : {<<>>},
   Description : {<<>>}, URL : {<<>>},
   Depends : {<< <<"libc">> >>},
   Resources : ResourceLists,
   Targets : TargetsOver({<<"{{.BuildRoot}}", "/", "bin">>}, {<<"/", "usr", "/", "bin">>}),
   Scripts : ScriptSets({"before-install", "bogus-hook"}, {<<"echo">>}),
   BuildRoot : {<<>>}, OutputRoot : {OutputDir}, ScriptRoot : {<<>>}]

(* the packages of the Package() specification: every rendered field varies *)
OptionalValues == {<<>>, <<"x">>, <<Unclosed>>}

PackagePackages ==
  [Name : {<<"f">>, <<Unclosed>>}, Version : {<<"1">>, <<Unclosed>>},
   Iteration : {<<"1">>, <<NoSuchField>>},
   Epoch : OptionalValues, License : {<<>>, <<"MIT">>, <<Unclosed>>},
   Vendor : OptionalValues,
   Description : {<<>>, <<"{{.Name}}", "v", "{{.Version}}">>, <<"v", NoSuchField>>},
   URL : {<<>>, <<"{{.License}}">>, <<Unclosed>>},
   Depends : {<< <<"libc">> >>},
   Resources : {<<>>},
   Targets : TargetsOver({<<"bin">>, <<Unclosed>>}, {<<"/", "{{.Name}}">>, <<NoSuchField>>}),
   Scripts : ScriptSets({"before-install", "after-install", "bogus-hook"},
                        {<<"echo", "{{.Version}}">>, <<Unclosed>>}),
   BuildRoot : {<<>>}, OutputRoot : {OutputDir}, ScriptRoot : {<<>>}]

(***************************************************************************)
(* The output directory: either it cannot be read, or it holds a set of    *)
(* entries.                                                                *)
(***************************************************************************)
Artifact == [name |-> <<"f", "-", "1", "-", "1", ".", "rpm">>, isDir |-> FALSE]
ArtifactDir == [name |-> <<"f", "-", "1", "-", "1", ".", "d">>, isDir |-> TRUE]
OtherFile == [name |-> <<"g", "-", "1", "-", "1", ".", "rpm">>, isDir |-> FALSE]

OutputStates ==
  {[readable |-> FALSE, files |-> {}]} \cup
  {[readable |-> TRUE, files |-> F] : F \in {{}, {Artifact}, {ArtifactDir, OtherFile}}}

(* the bytes a Resource.Download can return *)
Bytes == {<<"b1">>, <<"b2">>}

(***************************************************************************)
(* State.                                                                  *)
(***************************************************************************)
VARIABLES
  p,        \* the Package: its manifest fields, BuildRoot, OutputRoot, ScriptRoot
  entry,    \* the method the caller invoked: "Build" or "Package"
  pc,       \* the position of that call
  idx,      \* the index of the next resource of the loop of Build()
  fs,       \* the temporary directories that exist, with their files
  output,   \* the output directory
  output0,  \* the output directory when the call started
  fpm,      \* the backend subprocess: launched or not, and its argument vector
  pkgRet,   \* what Package() returned: [out, err]; err is NotReturned before
  ret,      \* what the invoked method returned to its caller, or NotReturned
  obs,      \* what happened inside fpmArgs: the order in which the range over
            \* p.Scripts visited the keys, the hooks whose write failed,
            \* whether the script directory was created, the calls of Render
  log,      \* the external steps taken so far, in order
  fetched,  \* the resources downloaded so far: name, bytes, and whether the
            \* write to the build directory succeeded
  cmd,      \* the state of the build command (BuildCmd.Run)
  rnd       \* the state of a caller that calls Render twice

vars == <<p, entry, pc, idx, fs, output, output0, fpm, pkgRet, ret, obs, log,
          fetched, cmd, rnd>>

NotReturned == "not returned"
NoPkgRet == [out |-> <<>>, err |-> NotReturned]
NotLaunched == [launched |-> FALSE, args |-> <<>>]
NoObs == [order |-> <<>>, wfail |-> {}, tmpOK |-> FALSE, calls |-> <<>>]

(* the build command before it runs: what the loader returns, the names   *)
(* on the command line, the selected packages (indices into loaded), the   *)
(* packages Build() was called on with its result, the message of the      *)
(* logrus.Fatal that ended the run, and the exit status (-1: none yet)     *)
NoFatal == "no fatal error"
NoCmd == [loaded |-> <<>>, packageNames |-> <<>>, packages |-> <<>>,
          outputDir |-> FALSE, built |-> <<>>, fatal |-> NoFatal, exit |-> -1]
(* a caller of Render: the template, the results of its calls, and the     *)
(* directories before the first call                                       *)
NoRnd == [in |-> <<>>, results |-> <<>>, fs0 |-> NoDirs]

Event(ev, k, res) == [ev |-> ev, k |-> k, res |-> res]

InitCommon ==
  /\ idx = 1
  /\ fs = NoDirs
  /\ output0 = output
  /\ fpm = NotLaunched
  /\ pkgRet = NoPkgRet
  /\ ret = NotReturned
  /\ obs = NoObs
  /\ log = <<>>
  /\ fetched = <<>>

(* a caller invokes Build() on a package whose OutputRoot is set *)
Init ==
  /\ p \in BuildPackages
  /\ entry = "Build"
  /\ pc = "Build"
  /\ output \in OutputStates
  /\ cmd = NoCmd
  /\ rnd = NoRnd
  /\ InitCommon

(* a caller invokes Package() on a package whose OutputRoot is set *)
InitPackage ==
  /\ p \in PackagePackages
  /\ entry = "Package"
  /\ pc = "Package"
  /\ output = [readable |-> TRUE, files |-> {}]
  /\ cmd = NoCmd
  /\ rnd = NoRnd
  /\ InitCommon


(***************************************************************************)
(* Helpers of the actions.                                                 *)
(***************************************************************************)
(* a conflict check that skips the files instead of the directories *)
conflictingDirs(pkg, files) ==
  \E file \in files : file.isDir /\ Match(nameGlob(pkg), file.name)

(* the conflict check of Build() (lines 79-97): some entry of the output   *)
(* directory is not a directory and matches nameGlob                       *)
conflicting(pkg, files) ==
  \E file \in files : ~file.isDir /\ Match(nameGlob(pkg), file.name)

(* defer os.Remove(buildDir) (line 101): os.Remove removes a directory     *)
(* only if it is empty; its error is dropped                               *)
deferredRemove(dirs) ==
  IF BuildDir \in DOMAIN dirs /\ DOMAIN dirs[BuildDir] = {}
  THEN [d \in DOMAIN dirs \ {BuildDir} |-> dirs[d]]
  ELSE dirs

(* a write that keeps a file that is already there *)
writeFileKeep(dirs, dir, name, body) ==
  [dirs EXCEPT ![dir] = dirs[dir] @@ (name :> body)]

(* ioutil.WriteFile(path.Join(dir, name), body) that succeeds *)
writeFile(dirs, dir, name, body) ==
  [dirs EXCEPT ![dir] = (name :> body) @@ dirs[dir]]

(* Scripts.BuildSources: the error it returns for an outcome of the build  *)
(* script ("ok", "nonzero" exit, or "launchfail")                          *)
BuildSourcesErr(outcome) == IF outcome = "ok" THEN Nil ELSE ErrBuildScript

(* the file the backend leaves in the output directory when it succeeds *)
producedArtifact(pkg) ==
  [name |-> Render(pkg, pkg.Name).out \o <<"-">> \o Render(pkg, pkg.Version).out
            \o <<"-">> \o Render(pkg, pkg.Iteration).out \o <<".", "rpm">>,
   isDir |-> FALSE]

(* Build() returns err: the deferred os.Remove runs *)
BuildReturns(err, dirs) ==
  /\ ret' = err
  /\ pc' = "done"
  /\ fs' = deferredRemove(dirs)

(* Package() returns (out, err), to the caller or to Build() (lines 132-139) *)
PackageReturns(out, err, dirs) ==
  /\ pkgRet' = [out |-> out, err |-> err]
  /\ IF entry = "Package"
     THEN /\ ret' = err
          /\ pc' = "done"
          /\ fs' = dirs
     ELSE IF err # Nil
          THEN BuildReturns(err, dirs)
          ELSE /\ pc' = "Cleanup"
               /\ fs' = dirs
               /\ UNCHANGED ret

(* a Build() that runs the build script before any resource is there *)
afterWorkspaceNoDownload(pkg) == "BuildSources"

(* the step that follows the creation of the build directory *)
afterWorkspace(pkg) == IF pkg.Resources = <<>> THEN "BuildSources" ELSE "Download"

(* a loop that drops the error of a download *)
downloadNeverAborts(err) == FALSE

(* whether Build() stops after a download that returned err (line 111) *)
downloadAborts(err) == err # Nil

(* a Build() that drops the error of the build script *)
buildNeverAborts(err) == FALSE

(* whether Build() stops after a build script that returned err (line 123) *)
buildAborts(err) == err # Nil

(***************************************************************************)
(* Build(), lines 72-106: the conflict check and the build directory.      *)
(***************************************************************************)
BuildEnter ==
  /\ pc = "Build"
  /\ UNCHANGED <<entry, idx, output, output0, fpm, pkgRet, obs, log, fetched, cmd, rnd>>
  /\ IF ~output.readable
     THEN /\ ret' = ErrReadDir /\ pc' = "done" /\ UNCHANGED <<p, fs>>
     ELSE IF conflicting(p, output.files)
     THEN /\ ret' = Nil /\ pc' = "done" /\ UNCHANGED <<p, fs>>
     ELSE \E tmpOK \in BOOLEAN :
            IF ~tmpOK
            THEN /\ BuildReturns(ErrTempDir, fs)
                 /\ UNCHANGED p
            ELSE /\ p' = [p EXCEPT !.BuildRoot = BuildDir]
                 /\ fs' = (BuildDir :> EmptyDir) @@ fs
                 /\ pc' = afterWorkspace(p)
                 /\ UNCHANGED ret

Fetched(name, body, written) == [name |-> name, body |-> body, written |-> written]

(* a loop that returns the error of ioutil.WriteFile *)
BuildDownloadChecked ==
  /\ pc = "Download"
  /\ idx <= Len(p.Resources)
  /\ UNCHANGED <<p, entry, output, output0, fpm, pkgRet, obs, cmd, rnd>>
  /\ \E err \in {Nil, ErrDownload}, body \in Bytes, written \in BOOLEAN :
       /\ log' = Append(log, Event("download", idx, err))
       /\ fetched' = IF err = Nil
                     THEN Append(fetched, Fetched(p.Resources[idx].name, body, written))
                     ELSE fetched
       /\ IF downloadAborts(err)
          THEN /\ BuildReturns(err, fs)
               /\ UNCHANGED idx
          ELSE IF ~written
          THEN /\ BuildReturns(ErrWriteFile, fs)
               /\ UNCHANGED idx
          ELSE /\ fs' = IF written /\ err = Nil
                        THEN writeFile(fs, BuildDir, p.Resources[idx].name, body)
                        ELSE fs
               /\ idx' = idx + 1
               /\ pc' = IF idx = Len(p.Resources) THEN "BuildSources" ELSE "Download"
               /\ UNCHANGED ret

(***************************************************************************)
(* Build(), lines 109-119: one iteration of the loop over p.Resources.     *)
(* The download returns bytes or fails; the result of WriteFile is dropped.*)
(***************************************************************************)
BuildDownload ==
  /\ pc = "Download"
  /\ idx <= Len(p.Resources)
  /\ UNCHANGED <<p, entry, output, output0, fpm, pkgRet, obs, cmd, rnd>>
  /\ \E err \in {Nil, ErrDownload}, body \in Bytes, written \in BOOLEAN :
       /\ log' = Append(log, Event("download", idx, err))
       /\ fetched' = IF err = Nil
                     THEN Append(fetched, Fetched(p.Resources[idx].name, body, written))
                     ELSE fetched
       /\ IF downloadAborts(err)
          THEN /\ BuildReturns(err, fs)
               /\ UNCHANGED idx
          ELSE /\ fs' = IF written /\ err = Nil
                        THEN writeFile(fs, BuildDir, p.Resources[idx].name, body)
                        ELSE fs
               /\ idx' = idx + 1
               /\ pc' = IF idx = Len(p.Resources) THEN "BuildSources" ELSE "Download"
               /\ UNCHANGED ret

(***************************************************************************)
(* Build(), lines 121-129: the build script runs in the build directory    *)
(* and may leave files there.                                              *)
(***************************************************************************)
BuildScript ==
  /\ pc = "BuildSources"
  /\ UNCHANGED <<p, entry, idx, output, output0, fpm, pkgRet, obs, fetched, cmd, rnd>>
  /\ \E outcome \in {"ok", "nonzero", "launchfail"}, made \in BOOLEAN :
       LET dirs == IF made /\ outcome # "launchfail"
                   THEN writeFile(fs, BuildDir, "bin", <<"elf">>)
                   ELSE fs
       IN  /\ log' = Append(log, Event("build", 0, outcome))
           /\ IF buildAborts(BuildSourcesErr(outcome))
              THEN BuildReturns(BuildSourcesErr(outcome), dirs)
              ELSE /\ pc' = "Package"
                   /\ fs' = dirs
                   /\ UNCHANGED ret

(***************************************************************************)
(* Package(), lines 155-170, with fpmArgs (lines 186-323): the argument    *)
(* vector is built; the script directory is created and the hooks are      *)
(* written to it.                                                          *)
(***************************************************************************)
PackageArgs ==
  /\ pc = "Package"
  /\ UNCHANGED <<entry, idx, output, output0, fetched, cmd, rnd>>
  /\ LET meta == metadataArgs(p)
     IN  IF Returned(meta)
         THEN /\ log' = Append(log, Event("fpmArgs", 0, meta.err))
              /\ obs' = [NoObs EXCEPT !.calls = meta.calls]
              /\ PackageReturns(<<>>, meta.err, fs)
              /\ UNCHANGED <<p, fpm>>
         ELSE \E tmpOK \in BOOLEAN :
                IF ~tmpOK
                THEN /\ log' = Append(log, Event("fpmArgs", 0, ErrTempDir))
                     /\ obs' = [NoObs EXCEPT !.calls = meta.calls]
                     /\ PackageReturns(<<>>, ErrTempDir, fs)
                     /\ UNCHANGED <<p, fpm>>
                ELSE \E order \in Orders(DOMAIN p.Scripts),
                        wfail \in SUBSET {n \in DOMAIN p.Scripts : ValidScriptName(n)} :
                       LET p1 == [p EXCEPT !.ScriptRoot = ScriptDir]
                           st == hookAndTargetArgs(p1, meta, order, wfail)
                           dirs == (ScriptDir :> st.files) @@ fs
                       IN  /\ p' = p1
                           /\ obs' = [order |-> order, wfail |-> wfail,
                                      tmpOK |-> TRUE, calls |-> st.calls]
                           /\ log' = Append(log, Event("fpmArgs", 0, st.err))
                           /\ IF Returned(st)
                              THEN /\ PackageReturns(<<>>, st.err, dirs)
                                   /\ UNCHANGED fpm
                              ELSE /\ fpm' = [launched |-> FALSE,
                                              args |-> prefixArgs(p1) \o st.args]
                                   /\ pc' = "fpm"
                                   /\ fs' = dirs
                                   /\ UNCHANGED <<pkgRet, ret>>

(***************************************************************************)
(* Package(), lines 171-184: fpm.CombinedOutput().  When the process       *)
(* cannot be started fpm.ProcessState is nil, and the calls on it in lines *)
(* 178-180 dereference it: the goroutine panics, and the deferred          *)
(* os.Remove of Build() runs while the panic unwinds.                      *)
(***************************************************************************)
PackageExec ==
  /\ pc = "fpm"
  /\ UNCHANGED <<p, entry, idx, output0, obs, fetched, cmd, rnd>>
  /\ fpm' = [fpm EXCEPT !.launched = TRUE]
  /\ \E outcome \in {"ok", "nonzero", "launchfail"} :
       /\ log' = Append(log, Event("fpm", 0, outcome))
       /\ CASE outcome = "launchfail" ->
                 /\ ret' = Panic
                 /\ pc' = "done"
                 /\ fs' = IF entry = "Build" THEN deferredRemove(fs) ELSE fs
                 /\ UNCHANGED <<pkgRet, output>>
            [] outcome = "nonzero" ->
                 /\ PackageReturns(<<"fpm output">>, ErrExit, fs)
                 /\ UNCHANGED output
            [] outcome = "ok" ->
                 /\ PackageReturns(<<"fpm output">>, Nil, fs)
                 /\ output' = [output EXCEPT !.files = @ \cup {producedArtifact(p)}]

(***************************************************************************)
(* Build(), line 141: return p.Cleanup().                                  *)
(***************************************************************************)
BuildCleanup ==
  /\ pc = "Cleanup"
  /\ UNCHANGED <<p, entry, idx, output, output0, fpm, pkgRet, obs, fetched, cmd, rnd>>
  /\ \E ok1, ok2 \in BOOLEAN :
       LET c == Cleanup(p, fs, ok1, ok2)
           failed == IF ~ok1 THEN "build_root" ELSE IF ~ok2 THEN "script_root" ELSE "none"
       IN  /\ log' = Append(log, Event("cleanup", 0, failed))
           /\ BuildReturns(c.err, c.fs)

Next ==
  \/ BuildEnter
  \/ BuildDownload
  \/ BuildScript
  \/ PackageArgs
  \/ PackageExec
  \/ BuildCleanup

Spec == Init /\ [][Next]_vars

NextPackage ==
  \/ PackageArgs
  \/ PackageExec

SpecPackage == InitPackage /\ [][NextPackage]_vars


(***************************************************************************)
(* Properties.                                                             *)
(***************************************************************************)
Last(seq) == seq[Len(seq)]

EventsOf(ev) == {k \in 1..Len(log) : log[k].ev = ev}

(* the output directory held an artifact of this package when Build() started *)
ArtifactPresent ==
  /\ output0.readable
  /\ \E file \in output0.files : ~file.isDir /\ Match(nameGlob(p), file.name)

(* C1: when the output directory holds a non-directory entry matching      *)
(* "{name}-{version}-{iteration}.*", Build() returns nil, and no download, *)
(* build script or backend ran, no directory was created and the output    *)
(* directory is as it was.                                                 *)
C1_SkipExistingArtifact ==
  (entry = "Build" /\ pc # "Build" /\ ArtifactPresent) =>
    /\ pc = "done"
    /\ ret = Nil
    /\ log = <<>>
    /\ ~fpm.launched
    /\ fs = NoDirs
    /\ p.BuildRoot = <<>> /\ p.ScriptRoot = <<>>
    /\ output = output0

C1_Witness ==
  /\ entry = "Build" /\ pc = "done" /\ ArtifactPresent
  /\ p.Resources # <<>>

(* C2: a failed download is the last step of the build: Build() has        *)
(* returned its error, no later resource was downloaded, the build script  *)
(* did not run and the backend was not launched.                           *)
C2_DownloadFailFast ==
  \A k \in EventsOf("download") :
    log[k].res # Nil =>
      /\ k = Len(log)
      /\ pc = "done"
      /\ ret = log[k].res
      /\ ~fpm.launched

C2_Witness ==
  /\ pc = "done"
  /\ Len(p.Resources) = 2
  /\ log = <<Event("download", 1, ErrDownload)>>

(* the script set holds a key outside the whitelist (and other than build) *)
HasInvalidHook == \E n \in DOMAIN p.Scripts : n # "build" /\ ~ValidScriptName(n)

(* the position of the first invalid key in the order of the range *)
FirstInvalid(order) ==
  CHOOSE i \in 1..Len(order) :
    /\ order[i] # "build" /\ ~ValidScriptName(order[i])
    /\ \A j \in 1..(i - 1) : order[j] = "build" \/ ValidScriptName(order[j])

(* fpmArgs reached the first invalid key: the metadata rendered, the script *)
(* directory was created, and every hook visited before the invalid key     *)
(* rendered and was written                                                 *)
ReachedInvalidHook ==
  /\ HasInvalidHook
  /\ metadataArgs(p).err = Nil
  /\ obs.tmpOK
  /\ \A j \in 1..(FirstInvalid(obs.order) - 1) :
       obs.order[j] # "build" =>
         /\ Render(p, p.Scripts[obs.order[j]]).err = Nil
         /\ obs.order[j] \notin obs.wfail

(* C3 as stated: with a key outside the whitelist in the script set,       *)
(* Package() returns the invalid-script-name error and the backend is not  *)
(* launched, whatever the order of the range and whatever the other,       *)
(* validly named, hooks.  Stated for the calls in which the metadata       *)
(* renders and no filesystem operation fails, so that only the script set  *)
(* and the order of the range are left to decide the result.               *)
C3_AlwaysInvalidScriptName ==
  (/\ entry = "Package" /\ pc = "done" /\ HasInvalidHook
   /\ metadataArgs(p).err = Nil
   /\ obs.tmpOK /\ obs.wfail = {}) =>
    /\ ret = ErrInvalidScriptName
    /\ ~fpm.launched

(* C3 amended: with a key outside the whitelist in the script set,         *)
(* Package() returns an error and the backend is never launched, whatever  *)
(* the order of the range; the error is the invalid-script-name error when *)
(* nothing failed before the first invalid key was visited.                *)
C3_InvalidHookNeverPackaged ==
  (entry = "Package" /\ HasInvalidHook) =>
    /\ ~fpm.launched
    /\ fpm.args = <<>>
    /\ pc = "done" =>
         /\ ret \notin {Nil, NotReturned}
         /\ ReachedInvalidHook => ret = ErrInvalidScriptName

C3_Witness ==
  /\ entry = "Package" /\ pc = "done"
  /\ ReachedInvalidHook
  /\ obs.order = <<"before-install", "build", "bogus-hook">>
  /\ ret = ErrInvalidScriptName

(* C4 as stated: once Build() has returned, with nil or with an error,     *)
(* neither the build directory nor the script directory exists.            *)
C4_WorkspacesRemoved ==
  (entry = "Build" /\ pc = "done") =>
    /\ BuildDir \notin DOMAIN fs
    /\ ScriptDir \notin DOMAIN fs

(* C5 as stated: when the backend cannot be launched or exits non-zero,    *)
(* Package() returns a non-nil error with the output, and Build() returns  *)
(* that error, without panicking and without running Cleanup.              *)
C5_BackendFailureReturned ==
  (entry = "Build" /\ pc = "done" /\ EventsOf("fpm") # {}
     /\ \E k \in EventsOf("fpm") : log[k].res # "ok") =>
    /\ pkgRet.err \notin {Nil, NotReturned}
    /\ ret = pkgRet.err
    /\ ret # Panic
    /\ EventsOf("cleanup") = {}

(* C6: a failed build script (non-zero exit or launch failure) is the last *)
(* step of the build: Build() has returned an error, Package() was not     *)
(* called, no script directory exists and the backend was not launched.    *)
C6_BuildScriptFailFast ==
  \A k \in EventsOf("build") :
    log[k].res # "ok" =>
      /\ k = Len(log)
      /\ pc = "done"
      /\ ret \notin {Nil, NotReturned, Panic}
      /\ pkgRet = NoPkgRet
      /\ obs = NoObs
      /\ p.ScriptRoot = <<>>
      /\ ScriptDir \notin DOMAIN fs
      /\ ~fpm.launched /\ fpm.args = <<>>

C6_Witness ==
  /\ pc = "done"
  /\ p.Resources # <<>>
  /\ log # <<>>
  /\ Last(log) = Event("build", 0, "nonzero")
  /\ "bogus-hook" \in DOMAIN p.Scripts

(* C7: the steps of a build come in the order downloads, build script,     *)
(* metadata rendering, backend, cleanup: the build script starts after     *)
(* every resource was downloaded successfully, in order; the arguments are *)
(* rendered after the build script succeeded; the backend is launched      *)
(* after the arguments rendered; Cleanup runs after the backend returned.  *)
C7_PipelineOrder ==
  entry = "Build" =>
    \A k \in 1..Len(log) :
      /\ log[k].ev = "download" => log[k].k = k /\ k <= Len(p.Resources)
      /\ log[k].ev = "build" =>
           /\ k = Len(p.Resources) + 1
           /\ \A j \in 1..(k - 1) : log[j] = Event("download", j, Nil)
      /\ log[k].ev = "fpmArgs" => k > 1 /\ log[k - 1] = Event("build", 0, "ok")
      /\ log[k].ev = "fpm" => k > 1 /\ log[k - 1] = Event("fpmArgs", 0, Nil)
      /\ log[k].ev = "cleanup" => k > 1 /\ log[k - 1] = Event("fpm", 0, "ok")

C7_Witness ==
  /\ entry = "Build" /\ pc = "done" /\ ret = Nil
  /\ Len(p.Resources) = 2
  /\ Len(log) = 6
  /\ Last(log).ev = "cleanup"

(* C8: when packaging succeeded, Build() returns the removal error if the  *)
(* removal of the build directory or of the script directory failed, the   *)
(* artifact being in the output directory all the same; it returns nil if  *)
(* both removals succeeded.                                                *)
C8_CleanupResultReturned ==
  (entry = "Build" /\ pc = "done" /\ EventsOf("cleanup") # {}) =>
    /\ pkgRet.err = Nil
    /\ producedArtifact(p) \in output.files
    /\ Last(log).res # "none" => ret = ErrRemove
    /\ Last(log).res = "none" => ret = Nil

C8_Witness ==
  /\ entry = "Build" /\ pc = "done"
  /\ log # <<>>
  /\ Last(log) = Event("cleanup", 0, "script_root")
  /\ ret = ErrRemove
  /\ producedArtifact(p) \in output.files

(* C9: a call of Render that fails while the arguments are built is the    *)
(* last one: Package() returns the templating error, the backend is not    *)
(* launched and no argument vector is handed to it.                        *)
C9_RenderFailureAborts ==
  entry = "Package" =>
    \A i \in 1..Len(obs.calls) :
      obs.calls[i].err # Nil =>
        /\ i = Len(obs.calls)
        /\ pc = "done"
        /\ ret = obs.calls[i].err
        /\ ret = ErrTemplate
        /\ pkgRet = [out |-> <<>>, err |-> ErrTemplate]
        /\ ~fpm.launched /\ fpm.args = <<>>

RenderFailedOn(what) ==
  /\ entry = "Package" /\ pc = "done"
  /\ obs.calls # <<>>
  /\ Last(obs.calls) = Call(what, ErrTemplate)

C9_Witness ==
  /\ RenderFailedOn("target dest")
  /\ "before-install" \in DOMAIN p.Scripts
  /\ p.Description # <<>>

(* the positions of the argument vector that hold the flag *)
FlagPositions(name) == {i \in 1..Len(fpm.args) : fpm.args[i] = Flag(name)}

OptionalFlag ==
  [epoch |-> "Epoch", license |-> "License", vendor |-> "Vendor",
   description |-> "Description", url |-> "URL"]

(* C10: in the argument vector built for the backend, each of --epoch,     *)
(* --license, --vendor, --description and --url occurs exactly when the    *)
(* field is not empty in the manifest, once, followed by the rendered      *)
(* field; an empty field contributes nothing.                              *)
C10_OptionalFlags ==
  fpm.args # <<>> =>
    \A flag \in DOMAIN OptionalFlag :
      LET value == p[OptionalFlag[flag]]
      IN  /\ value = <<>> => FlagPositions(flag) = {}
          /\ value # <<>> =>
               /\ Cardinality(FlagPositions(flag)) = 1
               /\ \A i \in FlagPositions(flag) :
                    i < Len(fpm.args) /\ fpm.args[i + 1] = Render(p, value).out

C10_Witness ==
  /\ fpm.launched
  /\ p.Epoch = <<>> /\ p.Vendor # <<>>
  /\ p.License = <<>> /\ p.URL # <<>>


(* C11: in the argument vector of a successful fpmArgs there is no --build *)
(* and no file was written for the build hook; every other entry of the    *)
(* script set contributes exactly one pair "--<hook>", script_root/<hook>, *)
(* and its rendered body is the file script_root/<hook>.                   *)
C11_BuildHookNotPassed ==
  (entry = "Package" /\ fpm.args # <<>>) =>
    /\ FlagPositions("build") = {}
    /\ "build" \notin DOMAIN fs[ScriptDir]
    /\ DOMAIN fs[ScriptDir] = DOMAIN p.Scripts \ {"build"}
    /\ \A name \in DOMAIN p.Scripts \ {"build"} :
         /\ ValidScriptName(name)
         /\ Cardinality(FlagPositions(name)) = 1
         /\ \A i \in FlagPositions(name) :
              i < Len(fpm.args) /\ fpm.args[i + 1] = Join(ScriptDir, name)
         /\ fs[ScriptDir][name] = Render(p, p.Scripts[name]).out

C11_Witness ==
  /\ entry = "Package" /\ fpm.launched
  /\ DOMAIN p.Scripts = {"build", "before-install", "after-install"}
  /\ obs.order[1] = "after-install" /\ obs.order[2] = "build"


(* the build ran the whole pipeline, Cleanup() included *)
FullPipeline == entry = "Build" /\ pc = "done" /\ EventsOf("cleanup") # {}

(* C15: a Build() that ran the whole pipeline and returned nil left        *)
(* neither its build directory nor its script directory, whatever they     *)
(* held.                                                                   *)
C15_SuccessLeavesNoWorkspace ==
  (FullPipeline /\ ret = Nil) =>
    /\ BuildDir \notin DOMAIN fs
    /\ ScriptDir \notin DOMAIN fs
    /\ fs = NoDirs

C15_Witness ==
  /\ FullPipeline /\ ret = Nil
  /\ \E k \in 1..Len(fetched) : fetched[k].written
  /\ "before-install" \in DOMAIN p.Scripts
  /\ fs = NoDirs

(* the downloads of the resources called name whose write succeeded *)
WrittenAs(name) == {k \in 1..Len(fetched) : fetched[k].name = name /\ fetched[k].written}

Latest(S) == CHOOSE k \in S : \A j \in S : j <= k

C17_WriteFailureIgnored ==
  entry = "Build" =>
    /\ ret # ErrWriteFile \/ pkgRet.err = ErrWriteFile
    /\ \A k \in 1..Len(fetched) :
         ~fetched[k].written =>
           /\ log[k] = Event("download", k, Nil)
           /\ Len(log) = k =>
                /\ ret = NotReturned
                /\ idx = k + 1
                /\ pc = IF k < Len(p.Resources) THEN "Download" ELSE "BuildSources"

C17_Witness ==
  /\ entry = "Build"
  /\ Len(p.Resources) = 2
  /\ Len(fetched) = 2
  /\ ~fetched[1].written /\ fetched[2].written
  /\ EventsOf("build") # {}

(* C18: Cleanup removes the build directory first and stops at the first   *)
(* failure: when the removal of the build directory failed the script      *)
(* directory is still there with its files; when the removal of the script *)
(* directory failed the build directory is already gone.                   *)
C18_CleanupStopsAtFirstFailure ==
  FullPipeline =>
    /\ Last(log).res = "build_root" =>
         /\ ret = ErrRemove
         /\ ScriptDir \in DOMAIN fs
         /\ DOMAIN fs[ScriptDir] = DOMAIN p.Scripts \ {"build"}
    /\ Last(log).res = "script_root" =>
         /\ ret = ErrRemove
         /\ BuildDir \notin DOMAIN fs
         /\ ScriptDir \in DOMAIN fs

C18_Witness ==
  /\ FullPipeline
  /\ Last(log) = Event("cleanup", 0, "build_root")
  /\ BuildDir \in DOMAIN fs
  /\ ScriptDir \in DOMAIN fs
  /\ "before-install" \in DOMAIN fs[ScriptDir]


(***************************************************************************)
(* The build command, BuildCmd.Run (src/build.go).  A loaded package is    *)
(* known to Run by its Name; the selection holds positions in the loader's *)
(* list, as the code's slice holds the loader's pointers.                  *)
(***************************************************************************)
MaxLoaded == 2
MaxNames == 3

LoadedNames == {"a", "b"}
ArgNames == {"a", "b", "c"}

FatalLoad == "could not load packages"
FatalNoPackages == "no packages selected"
FatalOutputDir == "could not ensure output directory"

(* the inner loop without its break: a package is appended once for every  *)
(* name that equals its own                                                *)
RECURSIVE matchNamesNoBreak(_, _, _, _)
matchNamesNoBreak(packages, i, pkgName, names) ==
  IF names = <<>> THEN packages
  ELSE IF pkgName = Head(names)
       THEN matchNamesNoBreak(Append(packages, i), i, pkgName, Tail(names))
       ELSE matchNamesNoBreak(packages, i, pkgName, Tail(names))

(* the inner loop (lines 24-30): the package is appended at the first name *)
(* that equals its own, and the loop is left                               *)
RECURSIVE matchNames(_, _, _, _)
matchNames(packages, i, pkgName, names) ==
  IF names = <<>> THEN packages
  ELSE IF pkgName = Head(names)
       THEN Append(packages, i)
       ELSE matchNames(packages, i, pkgName, Tail(names))

(* the outer loop (lines 23-31) from the i-th loaded package on *)
RECURSIVE selectPackages(_, _, _, _)
selectPackages(packages, loaded, i, names) ==
  IF i > Len(loaded) THEN packages
  ELSE selectPackages(matchNames(packages, i, loaded[i], names), loaded, i + 1, names)

(* the exit status of a logrus.Fatal, and of os.Exit(1) at line 45 *)
ExitFailure == 1
ExitSuccess == 0
(* the exit status of a Go process that dies of a panic *)
ExitPanic == 2

(* lines 44-46 *)
exitCode(ok) == IF ok THEN ExitSuccess ELSE ExitFailure

(* what Build() on one package can do: succeed (or skip), return an error, *)
(* or panic in Package() when the packaging backend cannot be launched     *)
BuildResults == {Nil, ErrBuildScript, Panic}

(* Packager.Build's result: whether every package built *)
allBuilt(built) == \A k \in 1..Len(built) : built[k].res = Nil

(* a package that is not being built *)
NoPackage ==
  [Name |-> <<>>, Version |-> <<>>, Iteration |-> <<>>, Epoch |-> <<>>,
   License |-> <<>>, Vendor |-> <<>>, Description |-> <<>>, URL |-> <<>>,
   Depends |-> <<>>, Resources |-> <<>>, Targets |-> <<>>,
   Scripts |-> [h \in {} |-> <<>>],
   BuildRoot |-> <<>>, OutputRoot |-> OutputDir, ScriptRoot |-> <<>>]

(* the command is started with some names, and the loader has some         *)
(* packages to return                                                      *)
InitCmd ==
  /\ p = NoPackage
  /\ entry = "Run"
  /\ pc = "Run"
  /\ output = [readable |-> TRUE, files |-> {}]
  /\ \E loaded \in SeqsUpTo(LoadedNames, MaxLoaded),
        names \in SeqsUpTo(ArgNames, MaxNames) :
       cmd = [NoCmd EXCEPT !.loaded = loaded, !.packageNames = names]
  /\ rnd = NoRnd
  /\ InitCommon

(* lines 17-35: load, select, and stop if nothing was selected *)
CmdRun ==
  /\ entry = "Run" /\ pc = "Run"
  /\ \E loadOK \in BOOLEAN :
       IF ~loadOK
       THEN /\ cmd' = [cmd EXCEPT !.fatal = FatalLoad, !.exit = ExitFailure]
            /\ pc' = "exited"
       ELSE LET packages == selectPackages(<<>>, cmd.loaded, 1, cmd.packageNames)
            IN  IF Len(packages) = 0
                THEN /\ cmd' = [cmd EXCEPT !.fatal = FatalNoPackages,
                                           !.exit = ExitFailure]
                     /\ pc' = "exited"
                ELSE /\ cmd' = [cmd EXCEPT !.packages = packages]
                     /\ pc' = "EnsureOutputDir"
  /\ UNCHANGED <<p, entry, idx, fs, output, output0, fpm, pkgRet, ret, obs,
                 log, fetched, rnd>>

(* lines 37-42: the packager is made and its output directory ensured *)
CmdEnsureOutputDir ==
  /\ entry = "Run" /\ pc = "EnsureOutputDir"
  /\ \E ok \in BOOLEAN :
       IF ok
       THEN /\ cmd' = [cmd EXCEPT !.outputDir = TRUE]
            /\ pc' = "PackagerBuild"
       ELSE /\ cmd' = [cmd EXCEPT !.fatal = FatalOutputDir, !.exit = ExitFailure]
            /\ pc' = "exited"
  /\ UNCHANGED <<p, entry, idx, fs, output, output0, fpm, pkgRet, ret, obs,
                 log, fetched, rnd>>

(* Packager.Build, one package at a time in the order of the selection:    *)
(* Build() is called on the next package; a panic ends the process         *)
PackagerBuild ==
  /\ entry = "Run" /\ pc = "PackagerBuild"
  /\ Len(cmd.built) < Len(cmd.packages)
  /\ \E res \in BuildResults :
       LET k == Len(cmd.built) + 1
           built == Append(cmd.built, [pkg |-> cmd.packages[k], res |-> res])
       IN  IF res = Panic
           THEN /\ cmd' = [cmd EXCEPT !.built = built, !.exit = ExitPanic]
                /\ pc' = "exited"
           ELSE /\ cmd' = [cmd EXCEPT !.built = built]
                /\ pc' = "PackagerBuild"
  /\ UNCHANGED <<p, entry, idx, fs, output, output0, fpm, pkgRet, ret, obs,
                 log, fetched, rnd>>

(* lines 44-47: Packager.Build has returned; the exit status follows it *)
CmdExit ==
  /\ entry = "Run" /\ pc = "PackagerBuild"
  /\ Len(cmd.built) = Len(cmd.packages)
  /\ cmd' = [cmd EXCEPT !.exit = exitCode(allBuilt(cmd.built))]
  /\ pc' = "exited"
  /\ UNCHANGED <<p, entry, idx, fs, output, output0, fpm, pkgRet, ret, obs,
                 log, fetched, rnd>>

NextCmd ==
  \/ CmdRun
  \/ CmdEnsureOutputDir
  \/ PackagerBuild
  \/ CmdExit

SpecCmd == InitCmd /\ [][NextCmd]_vars

Range(seq) == {seq[i] : i \in 1..Len(seq)}

(* the load succeeded and the selection has been made *)
Selected == entry = "Run" /\ pc # "Run" /\ cmd.fatal # FatalLoad

(* C12: (as the specification states it) run with no package names, the    *)
(* command selects every loaded package and does not stop with "no         *)
(* packages selected".                                                     *)
C12_NoNamesBuildsAll ==
  (Selected /\ cmd.packageNames = <<>> /\ cmd.loaded # <<>>)
    => /\ cmd.fatal # FatalNoPackages
       /\ cmd.packages = [i \in 1..Len(cmd.loaded) |-> i]

(* C13: (as the specification states it) once the packager has started,    *)
(* Build() is called on every selected package in order, a failure of one  *)
(* does not keep the later ones from being built, and the exit status is   *)
(* 0 exactly when every package built and 1 otherwise.                     *)
C13_EveryPackageBuilt ==
  (entry = "Run" /\ pc = "exited" /\ cmd.outputDir)
    => /\ Len(cmd.built) = Len(cmd.packages)
       /\ \A k \in 1..Len(cmd.built) : cmd.built[k].pkg = cmd.packages[k]
       /\ cmd.exit = IF allBuilt(cmd.built) THEN ExitSuccess ELSE ExitFailure

RenderTemplates ==
  {<<>>, <<"x">>, <<"{{.Name}}", "-", "{{.Version}}">>, <<"{{.BuildRoot}}", "/", "bin">>,
   <<Unclosed>>, <<"v", NoSuchField>>, <<"rm", CleanupAction>>}

RenderPackages ==
  [Name : {<<"f">>, <<"{{.Version}}">>}, Version : {<<"1">>, <<Unclosed>>},
   Iteration : {<<"1">>}, Epoch : {<<>>}, License : {<<>>}, Vendor : {<<>>},
   Description : {<<>>}, URL : {<<>>}, Depends : {<<>>}, Resources : {<<>>},
   Targets : {<<>>}, Scripts : {[h \in {} |-> <<>>]},
   BuildRoot : {BuildDir}, OutputRoot : {OutputDir}, ScriptRoot : {<<>>, ScriptDir}]

(* the directories of such a package: the build directory with or without  *)
(* a fetched file, and the script directory if the package has one         *)
RenderDirs(pkg) ==
  {[d \in {BuildDir} \cup (IF pkg.ScriptRoot = <<>> THEN {} ELSE {ScriptDir}) |->
      IF d = BuildDir THEN b ELSE EmptyDir] :
     b \in {EmptyDir, [n \in {<<"src">>} |-> <<"body">>]}}

InitRender ==
  /\ p \in RenderPackages
  /\ entry = "Render"
  /\ pc = "Render"
  /\ output = [readable |-> TRUE, files |-> {}]
  /\ idx = 1
  /\ fs \in RenderDirs(p)
  /\ output0 = output
  /\ fpm = NotLaunched
  /\ pkgRet = NoPkgRet
  /\ ret = NotReturned
  /\ obs = NoObs
  /\ log = <<>>
  /\ fetched = <<>>
  /\ cmd = NoCmd
  /\ \E in \in RenderTemplates : rnd = [in |-> in, results |-> <<>>, fs0 |-> fs]

(* one call of p.Render(in) (lines 144-153); Render assigns to no field of *)
(* the package                                                             *)
CallRender ==
  /\ entry = "Render" /\ pc = "Render"
  /\ \E ok1 \in BOOLEAN, ok2 \in BOOLEAN :
       \* os.RemoveAll of a path that does not exist returns nil
       /\ p.BuildRoot \notin DOMAIN fs => ok1
       /\ p.ScriptRoot \notin DOMAIN fs => ok2
       /\ LET r == RenderOn(p, rnd.in, fs, ok1, ok2)
          IN  /\ rnd' = [rnd EXCEPT !.results = Append(@, [out |-> r.out, err |-> r.err])]
              /\ fs' = r.fs
  /\ pc' = IF Len(rnd.results) = 1 THEN "rendered" ELSE "Render"
  /\ UNCHANGED <<p, entry, idx, output, output0, fpm, pkgRet, ret, obs, log,
                 fetched, cmd>>

NextRender == CallRender

SpecRender == InitRender /\ [][NextRender]_vars

(* C14: (as the specification states it) Render touches no file, and two   *)
(* consecutive calls on the same template return the same output, or both  *)
(* fail.                                                                   *)
C14_RenderPure ==
  entry = "Render" =>
    /\ fs = rnd.fs0
    /\ Len(rnd.results) = 2 =>
         \/ rnd.results[1].err # Nil /\ rnd.results[2].err # Nil
         \/ rnd.results[1] = rnd.results[2]

====
